---- MODULE Spec2Model ----
(***************************************************************************)
(* Model of Tools/tempo.py: the credential store (CredentialSettings,      *)
(* CookieSet, CookieSetEncoder), the session acquirer                      *)
(* (CookieService.get_jira_cookies and its helpers) and the worklog        *)
(* submitter (CookieService.post_tempo_worklog).                           *)
(*                                                                         *)
(* Python strings are sequences of one-character strings, so that          *)
(* str.lower() and the JSON text are computed rather than assumed.         *)
(* The credential file holds a sequence of JSON tokens.                    *)
(***************************************************************************)
EXTENDS Integers, Sequences, FiniteSets, TLC

\* ------------------------------------------------------------------ bounds
MaxCookies == 3

\* --------------------------------------------------------------- constants
MAX_RETRIES == 4

\* ----------------------------------------------------------------- strings
S_user == <<"u","s","e","r">>
S_pwd == <<"p","w","d">>
S_JSESSIONID == <<"J","S","E","S","S","I","O","N","I","D">>
S_AtlassianXsrfToken == <<"A","t","l","a","s","s","i","a","n","X","s","r","f","T","o","k","e","n">>
S_name == <<"n","a","m","e">>
S_value == <<"v","a","l","u","e">>
S_jsessionid == <<"j","s","e","s","s","i","o","n","i","d">>
S_atl_xsrf_token == <<"a","t","l",".","x","s","r","f",".","t","o","k","e","n">>
S_atlassian_xsrf_token == <<"a","t","l","a","s","s","i","a","n",".","x","s","r","f",".","t","o","k","e","n">>
S_ATLASSIAN_XSRF_TOKEN == <<"A","T","L","A","S","S","I","A","N",".","X","S","R","F",".","T","O","K","E","N">>
S_other == <<"o","t","h","e","r">>
S_empty == << >>

DEFAULT_USER == <<"j","i","r","a","_","u","s","e","r","_","n","a","m","e">>
DEFAULT_PASSWORD == <<"j","i","r","a","_","p","w","d">>

UpperChars == <<"A","B","C","D","E","F","G","H","I","J","K","L","M","N","O","P","Q","R","S","T","U","V","W","X","Y","Z">>
LowerChars == <<"a","b","c","d","e","f","g","h","i","j","k","l","m","n","o","p","q","r","s","t","u","v","w","x","y","z">>

\* str.lower() on one character
LowerChar(c) ==
    IF \E i \in DOMAIN UpperChars : UpperChars[i] = c
    THEN LowerChars[CHOOSE i \in DOMAIN UpperChars : UpperChars[i] = c]
    ELSE c

\* str.lower()
lower(s) == [i \in DOMAIN s |-> LowerChar(s[i])]

\* ----------------------------------------------------------- Python values
PyNone == [kind |-> "None"]
PyStr(s) == [kind |-> "str", s |-> s]
PyDict(items) == [kind |-> "dict", items |-> items]

\* @dataclass CookieSet; name and value hold Python values (strings in every run of the program)
CookieSet(name, value) == [kind |-> "CookieSet", name |-> name, value |-> value]

\* @dataclass CredentialSettings
CredentialSettings(user, pwd, jsession, xsrf) ==
    [user |-> user, pwd |-> pwd, JSESSIONID |-> jsession, AtlassianXsrfToken |-> xsrf]

\* CredentialSettings() with the dataclass defaults
FreshCredentialSettings ==
    CredentialSettings(PyStr(DEFAULT_USER), PyStr(DEFAULT_PASSWORD), PyNone, PyNone)

\* bool(v)
Truthy(v) ==
    CASE v.kind = "None" -> FALSE
      [] v.kind = "str" -> v.s # << >>
      [] v.kind = "dict" -> v.items # << >>
      [] OTHER -> TRUE

\* dict.get(key, default) on an insertion-ordered dict
dict_get(d, key, default) ==
    IF \E i \in DOMAIN d.items : d.items[i].k = key
    THEN d.items[CHOOSE i \in DOMAIN d.items : d.items[i].k = key].v
    ELSE default

\* d[key] = v : replaces the value of an existing key, appends a new one
dict_set(d, key, v) ==
    IF \E i \in DOMAIN d.items : d.items[i].k = key
    THEN PyDict([i \in DOMAIN d.items |->
                    IF d.items[i].k = key THEN [k |-> key, v |-> v] ELSE d.items[i]])
    ELSE PyDict(Append(d.items, [k |-> key, v |-> v]))

dict_keys(d) == {d.items[i].k : i \in DOMAIN d.items}

\* self.credential_settings.__dict__
settings_dict(s) ==
    PyDict(<< [k |-> S_user, v |-> s.user],
              [k |-> S_pwd, v |-> s.pwd],
              [k |-> S_JSESSIONID, v |-> s.JSESSIONID],
              [k |-> S_AtlassianXsrfToken, v |-> s.AtlassianXsrfToken] >>)

\* -------------------------------------------------------------- JSON text
Tok(t) == [t |-> t, s |-> << >>]
TokStr(s) == [t |-> "str", s |-> s]

CookieSetEncoder_default_swapped(obj) ==
    PyDict(<< [k |-> S_name, v |-> obj.value],
              [k |-> S_value, v |-> obj.name] >>)

\* CookieSetEncoder.default
CookieSetEncoder_default(obj) ==
    PyDict(<< [k |-> S_name, v |-> obj.name],
              [k |-> S_value, v |-> obj.value] >>)

RECURSIVE iterencode(_)
RECURSIVE iterencode_items(_, _)

\* the members of a dict, comma separated, in insertion order
iterencode_items(items, i) ==
    IF i > Len(items) THEN << >>
    ELSE (IF i > 1 THEN << Tok(",") >> ELSE << >>)
         \o << TokStr(items[i].k), Tok(":") >>
         \o iterencode(items[i].v)
         \o iterencode_items(items, i + 1)

\* json.dump(obj, f, cls=CookieSetEncoder): the text that is written
iterencode(obj) ==
    CASE obj.kind = "None" -> << Tok("null") >>
      [] obj.kind = "str" -> << TokStr(obj.s) >>
      [] obj.kind = "dict" -> << Tok("{") >> \o iterencode_items(obj.items, 1) \o << Tok("}") >>
      [] OTHER -> iterencode(CookieSetEncoder_default(obj))

JSONDecodeError == [ok |-> FALSE]

RECURSIVE ParseValue(_, _)
RECURSIVE ParseMembers(_, _, _)

\* the members of an object from position i on; a repeated key keeps the last value
ParseMembers(toks, i, acc) ==
    IF i + 1 > Len(toks) \/ toks[i].t # "str" \/ toks[i + 1].t # ":"
    THEN JSONDecodeError
    ELSE LET r == ParseValue(toks, i + 2) IN
         IF ~r.ok THEN JSONDecodeError
         ELSE LET acc2 == dict_set(acc, toks[i].s, r.val) IN
              IF r.next > Len(toks) THEN JSONDecodeError
              ELSE IF toks[r.next].t = "}" THEN [ok |-> TRUE, val |-> acc2, next |-> r.next + 1]
              ELSE IF toks[r.next].t = "," THEN ParseMembers(toks, r.next + 1, acc2)
              ELSE JSONDecodeError

\* one JSON value starting at position i
ParseValue(toks, i) ==
    IF i > Len(toks) THEN JSONDecodeError
    ELSE CASE toks[i].t = "null" -> [ok |-> TRUE, val |-> PyNone, next |-> i + 1]
           [] toks[i].t = "str" -> [ok |-> TRUE, val |-> PyStr(toks[i].s), next |-> i + 1]
           [] toks[i].t = "{" ->
                IF i + 1 <= Len(toks) /\ toks[i + 1].t = "}"
                THEN [ok |-> TRUE, val |-> PyDict(<< >>), next |-> i + 2]
                ELSE ParseMembers(toks, i + 1, PyDict(<< >>))
           [] OTHER -> JSONDecodeError

\* json.load(f): the whole text must be exactly one value
json_load(toks) ==
    LET r == ParseValue(toks, 1) IN
    IF r.ok /\ r.next = Len(toks) + 1 THEN [ok |-> TRUE, val |-> r.val] ELSE JSONDecodeError

\* CookieSet(**cookie_data): exactly the keywords name and value are accepted
CookieSet_from_kwargs(cookie_data) ==
    IF cookie_data.kind = "dict" /\ dict_keys(cookie_data) = {S_name, S_value}
    THEN [ok |-> TRUE,
          val |-> CookieSet(dict_get(cookie_data, S_name, PyNone),
                            dict_get(cookie_data, S_value, PyNone))]
    ELSE [ok |-> FALSE, error |-> "TypeError"]

\* one cookie field of from_dict: "if cookie_data := data.get(key): CookieSet(**cookie_data)"
from_dict_cookie(data, key) ==
    LET cookie_data == dict_get(data, key, PyNone) IN
    IF Truthy(cookie_data) THEN CookieSet_from_kwargs(cookie_data)
    ELSE [ok |-> TRUE, val |-> PyNone]

\* CredentialSettings.from_dict
from_dict(data) ==
    IF data.kind # "dict" THEN [ok |-> FALSE, error |-> "AttributeError"]
    ELSE LET j == from_dict_cookie(data, S_JSESSIONID)
             x == from_dict_cookie(data, S_AtlassianXsrfToken) IN
         IF ~j.ok THEN [ok |-> FALSE, error |-> j.error]
         ELSE IF ~x.ok THEN [ok |-> FALSE, error |-> x.error]
         ELSE [ok |-> TRUE,
               val |-> CredentialSettings(dict_get(data, S_user, PyStr(DEFAULT_USER)),
                                          dict_get(data, S_pwd, PyStr(DEFAULT_PASSWORD)),
                                          j.val, x.val)]

\* ------------------------------------------------------- browser and HTTP
V_a == <<"a">>
V_b == <<"b">>

\* names and values of the cookies the browser may hand back
CookieNames == {S_JSESSIONID, S_jsessionid, S_atl_xsrf_token, S_ATLASSIAN_XSRF_TOKEN, S_other}
CookieValues == {V_a, V_b}
BrowserCookies == [name : CookieNames, value : CookieValues]

\* driver.get_cookies(): every list of at most MaxCookies cookies
CookieLists == UNION {[1..n -> BrowserCookies] : n \in 0..MaxCookies}

\* outcomes of one attempt of the click loop
ClickOutcomes == {"clicked", "hidden", "missing", "click_error"}

\* outcomes of session.post
Responses == {[kind |-> "status", status |-> 200],
              [kind |-> "status", status |-> 401],
              [kind |-> "status", status |-> 500],
              [kind |-> "ClientError", status |-> 0]}

NoFile == [exists |-> FALSE, content |-> << >>]

\* a credential file left by an earlier successful run
PreviousFile ==
    [exists |-> TRUE,
     content |-> iterencode(settings_dict(
                    CredentialSettings(PyStr(DEFAULT_USER), PyStr(DEFAULT_PASSWORD),
                                       CookieSet(PyStr(S_JSESSIONID), PyStr(V_a)),
                                       CookieSet(PyStr(S_atl_xsrf_token), PyStr(V_b)))))]

NoClick == [result |-> "none", clicked |-> FALSE]
NotLoaded == [ok |-> FALSE, error |-> "none"]
NoPost == [result |-> "none", error |-> "none", posts |-> 0, read |-> "none",
           response |-> [kind |-> "none", status |-> 0]]

\* ------------------------------------------------------------------ state
VARIABLES
    pc,                   \* position of get_jira_cookies
    driver,               \* "None", "open" (session running) or "quit"
    quit_calls,           \* number of driver.quit() calls
    attempt,              \* loop index of _click_element_with_retry
    last_click,           \* how the last _click_element_with_retry call ended
    cookies,              \* the list returned by driver.get_cookies()
    credential_settings,  \* self.credential_settings
    file,                 \* the file at CONFIG_PATH
    pending,              \* "return" or "raise": how get_jira_cookies leaves its try block
    error,                \* the exception being propagated
    file_before,          \* the file when get_jira_cookies was called
    settings_before,      \* self.credential_settings when get_jira_cookies was called
    opened_for_write,     \* open(CONFIG_PATH, 'w') was called
    post_call,            \* how the last post_tempo_worklog call ended
    reloaded              \* the result of from_dict(json.load(f)) in the round trip

vars == <<pc, driver, quit_calls, attempt, last_click, cookies, credential_settings, file,
          pending, error, file_before, settings_before, opened_for_write, post_call, reloaded>>

acquirer_vars == <<pc, driver, quit_calls, attempt, last_click, cookies, credential_settings,
                   file, pending, error, file_before, settings_before, opened_for_write>>

Init ==
    /\ pc = "get_web_driver"
    /\ driver = "None"
    /\ quit_calls = 0
    /\ attempt = 0
    /\ last_click = NoClick
    /\ cookies = << >>
    /\ credential_settings = FreshCredentialSettings
    /\ file \in {NoFile, PreviousFile}
    /\ pending = "none"
    /\ error = "none"
    /\ file_before = file
    /\ settings_before = credential_settings
    /\ opened_for_write = FALSE
    /\ post_call = NoPost
    /\ reloaded = NotLoaded

\* an exception leaves the try block: "except Exception: log; raise", then the finally clause
Raise(kind) ==
    /\ pc' = "finally"
    /\ pending' = "raise"
    /\ error' = kind

\* ------------------------------------------------------- get_jira_cookies
\* driver = self._get_web_driver()
GetWebDriver ==
    /\ pc = "get_web_driver"
    /\ \E ok \in BOOLEAN :
         IF ok
         THEN /\ driver' = "open"
              /\ pc' = "navigate"
              /\ UNCHANGED <<pending, error>>
         ELSE /\ Raise("WebDriverException")
              /\ UNCHANGED driver
    /\ UNCHANGED <<quit_calls, attempt, last_click, cookies, credential_settings, file,
                   file_before, settings_before, opened_for_write, post_call, reloaded>>

\* a browser step that either succeeds or raises
BrowserStep(at, next) ==
    /\ pc = at
    /\ \E ok \in BOOLEAN :
         IF ok
         THEN /\ pc' = next
              /\ UNCHANGED <<pending, error>>
         ELSE Raise("WebDriverException")
    /\ UNCHANGED <<driver, quit_calls, attempt, last_click, cookies, credential_settings, file,
                   file_before, settings_before, opened_for_write, post_call, reloaded>>

\* driver.get(login page); wait.until(readyState complete); sleep
Navigate == BrowserStep("navigate", "click1")

\* self._handle_login_form(driver)
HandleLoginForm == BrowserStep("login_form", "click2")

\* wait.until(readyState complete); sleep
WaitReady == BrowserStep("wait_ready", "get_cookies")

\* one iteration of the loop of _click_element_with_retry
click_element_with_retry(at, next) ==
    /\ pc = at
    /\ attempt < MAX_RETRIES
    /\ \E outcome \in ClickOutcomes :
         CASE outcome = "clicked" ->
                \* element found, is_displayed(), click(): return
                /\ last_click' = [result |-> "returned", clicked |-> TRUE]
                /\ attempt' = 0
                /\ pc' = next
                /\ UNCHANGED <<pending, error>>
           [] outcome = "hidden" ->
                \* element found but not displayed: no exception, next iteration;
                \* when the range is exhausted the function falls off its end
                IF attempt + 1 < MAX_RETRIES
                THEN /\ attempt' = attempt + 1
                     /\ UNCHANGED <<last_click, pc, pending, error>>
                ELSE /\ last_click' = [result |-> "returned", clicked |-> FALSE]
                     /\ attempt' = 0
                     /\ pc' = next
                     /\ UNCHANGED <<pending, error>>
           [] OTHER ->
                \* find_element or click raised WebDriverException
                IF attempt = MAX_RETRIES - 1
                THEN /\ last_click' = [result |-> "raised", clicked |-> FALSE]
                     /\ attempt' = 0
                     /\ Raise("WebDriverException")
                ELSE /\ attempt' = attempt + 1
                     /\ UNCHANGED <<last_click, pc, pending, error>>
    /\ UNCHANGED <<driver, quit_calls, cookies, credential_settings, file,
                   file_before, settings_before, opened_for_write, post_call, reloaded>>

\* self._click_element_with_retry(driver, "login-form-submit"), first call
Click1 == click_element_with_retry("click1", "login_form")

\* self._click_element_with_retry(driver, "login-form-submit"), second call
Click2 == click_element_with_retry("click2", "wait_ready")

GetCookies_NoEmptyCheck ==
    /\ pc = "get_cookies"
    /\ \E cs \in CookieLists :
         /\ cookies' = cs
         /\ pc' = "save_loop"
         /\ UNCHANGED <<pending, error>>
    /\ UNCHANGED <<driver, quit_calls, attempt, last_click, credential_settings, file,
                   file_before, settings_before, opened_for_write, post_call, reloaded>>

\* cookies = driver.get_cookies(); if not cookies: raise ValueError
GetCookies ==
    /\ pc = "get_cookies"
    /\ \E cs \in CookieLists :
         /\ cookies' = cs
         /\ IF cs = << >>
            THEN Raise("ValueError")
            ELSE /\ pc' = "save_loop"
                 /\ UNCHANGED <<pending, error>>
    /\ UNCHANGED <<driver, quit_calls, attempt, last_click, credential_settings, file,
                   file_before, settings_before, opened_for_write, post_call, reloaded>>

save_cookie_CaseSensitive(settings, cookie) ==
    IF cookie.name = S_jsessionid
    THEN [settings EXCEPT !.JSESSIONID = CookieSet(PyStr(cookie.name), PyStr(cookie.value))]
    ELSE IF cookie.name \in {S_atl_xsrf_token, S_atlassian_xsrf_token}
    THEN [settings EXCEPT !.AtlassianXsrfToken = CookieSet(PyStr(cookie.name), PyStr(cookie.value))]
    ELSE settings

\* the body of the for loop of _save_cookies
save_cookie(settings, cookie) ==
    LET name == lower(cookie.name) IN
    IF name = S_jsessionid
    THEN [settings EXCEPT !.JSESSIONID = CookieSet(PyStr(cookie.name), PyStr(cookie.value))]
    ELSE IF name \in {S_atl_xsrf_token, S_atlassian_xsrf_token}
    THEN [settings EXCEPT !.AtlassianXsrfToken = CookieSet(PyStr(cookie.name), PyStr(cookie.value))]
    ELSE settings

RECURSIVE save_cookies_scan(_, _, _)
\* "for cookie in cookies" of _save_cookies, from index i on
save_cookies_scan(settings, cs, i) ==
    IF i > Len(cs) THEN settings
    ELSE save_cookies_scan(save_cookie(settings, cs[i]), cs, i + 1)

\* _save_cookies: the loop over the cookies
SaveLoop ==
    /\ pc = "save_loop"
    /\ credential_settings' = save_cookies_scan(credential_settings, cookies, 1)
    /\ pc' = "save_open"
    /\ UNCHANGED <<driver, quit_calls, attempt, last_click, cookies, file, pending, error,
                   file_before, settings_before, opened_for_write, post_call, reloaded>>

\* _save_cookies: open(CONFIG_PATH, 'w') truncates the file, or raises IOError.
\* The cookie list is not read again after the loop.
SaveOpen ==
    /\ pc = "save_open"
    /\ cookies' = << >>
    /\ \E ok \in BOOLEAN :
         IF ok
         THEN /\ file' = [exists |-> TRUE, content |-> << >>]
              /\ opened_for_write' = TRUE
              /\ pc' = "save_dump"
              /\ UNCHANGED <<pending, error>>
         ELSE /\ Raise("IOError")
              /\ UNCHANGED <<file, opened_for_write>>
    /\ UNCHANGED <<driver, quit_calls, attempt, last_click, credential_settings,
                   file_before, settings_before, post_call, reloaded>>

\* the text json.dump writes for the current settings
DumpText == iterencode(settings_dict(credential_settings))

\* _save_cookies: part of the buffered text reaches the file
SaveFlush ==
    /\ pc = "save_dump"
    /\ \E k \in (Len(file.content) + 1)..(Len(DumpText) - 1) :
         file' = [exists |-> TRUE, content |-> SubSeq(DumpText, 1, k)]
    /\ UNCHANGED <<pc, driver, quit_calls, attempt, last_click, cookies, credential_settings,
                   pending, error, file_before, settings_before, opened_for_write, post_call, reloaded>>

\* _save_cookies: a write fails with IOError; the file keeps what had reached it
SaveWriteError ==
    /\ pc = "save_dump"
    /\ Raise("IOError")
    /\ UNCHANGED <<driver, quit_calls, attempt, last_click, cookies, credential_settings, file,
                   file_before, settings_before, opened_for_write, post_call, reloaded>>

\* _save_cookies: the with block closes the file with the whole text written;
\* get_jira_cookies logs success and leaves the try block
SaveClose ==
    /\ pc = "save_dump"
    /\ file' = [exists |-> TRUE, content |-> DumpText]
    /\ pc' = "finally"
    /\ pending' = "return"
    /\ UNCHANGED <<driver, quit_calls, attempt, last_click, cookies, credential_settings,
                   error, file_before, settings_before, opened_for_write, post_call, reloaded>>

Finally_QuitOnSuccessOnly ==
    /\ pc = "finally"
    /\ IF driver # "None" /\ pending = "return"
       THEN /\ driver' = "quit"
            /\ quit_calls' = quit_calls + 1
       ELSE UNCHANGED <<driver, quit_calls>>
    /\ pc' = IF pending = "return" THEN "returned" ELSE "raised"
    /\ UNCHANGED <<attempt, last_click, cookies, credential_settings, file, pending, error,
                   file_before, settings_before, opened_for_write, post_call, reloaded>>

\* finally: if driver: driver.quit(); then the function returns or re-raises
Finally ==
    /\ pc = "finally"
    /\ IF driver # "None"
       THEN /\ driver' = "quit"
            /\ quit_calls' = quit_calls + 1
       ELSE UNCHANGED <<driver, quit_calls>>
    /\ pc' = IF pending = "return" THEN "returned" ELSE "raised"
    /\ UNCHANGED <<attempt, last_click, cookies, credential_settings, file, pending, error,
                   file_before, settings_before, opened_for_write, post_call, reloaded>>

\* ----------------------------------------------------- post_tempo_worklog
post_response_NoExcept(response) ==
    IF response.kind = "ClientError" THEN [result |-> "raised", error |-> "ClientError"]
    ELSE IF response.status = 200 THEN [result |-> "True", error |-> "none"]
    ELSE [result |-> "False", error |-> "none"]

\* the try block around session.post: 200 is True, another status or ClientError is False
post_response(response) ==
    IF response.kind = "ClientError" THEN [result |-> "False", error |-> "none"]
    ELSE IF response.status = 200 THEN [result |-> "True", error |-> "none"]
    ELSE [result |-> "False", error |-> "none"]

\* post_tempo_worklog as a function of the file, of whether open(..., 'r') succeeds,
\* and of the outcome of the POST
post_outcome(f, readable, response) ==
    IF ~f.exists \/ ~readable
    THEN \* IOError: logged, return False
         [NoPost EXCEPT !.result = "False", !.read = "unreadable"]
    ELSE LET loaded == json_load(f.content) IN
         IF ~loaded.ok
         THEN \* json.JSONDecodeError is not an IOError
              [NoPost EXCEPT !.result = "raised", !.error = "JSONDecodeError", !.read = "corrupt"]
         ELSE LET saved == from_dict(loaded.val) IN
              IF ~saved.ok
              THEN [NoPost EXCEPT !.result = "raised", !.error = saved.error, !.read = "corrupt"]
              ELSE IF saved.val.AtlassianXsrfToken.kind = "None"
                      \/ saved.val.JSESSIONID.kind = "None"
              THEN \* None.name while building the cookies dict
                   [NoPost EXCEPT !.result = "raised", !.error = "AttributeError",
                                  !.read = "missing_cookie"]
              ELSE LET r == post_response(response) IN
                   [result |-> r.result, error |-> r.error, posts |-> 1, read |-> "both",
                    response |-> response]

\* one call of post_tempo_worklog, possibly from another process while an acquisition runs
post_tempo_worklog ==
    /\ \E readable \in BOOLEAN, response \in Responses :
         post_call' = post_outcome(file, readable, response)
    /\ UNCHANGED <<acquirer_vars, reloaded>>

Next ==
    \/ GetWebDriver
    \/ Navigate
    \/ Click1
    \/ HandleLoginForm
    \/ Click2
    \/ WaitReady
    \/ GetCookies
    \/ SaveLoop
    \/ SaveOpen
    \/ SaveFlush
    \/ SaveWriteError
    \/ SaveClose
    \/ Finally
    \/ post_tempo_worklog

Spec == Init /\ [][Next]_vars

\* ------------------------------------------- the serialization round trip
RTNames == {S_JSESSIONID, S_empty}
RTValues == {V_a, S_empty}
RTCookies == {PyNone} \cup {CookieSet(PyStr(n), PyStr(v)) : n \in RTNames, v \in RTValues}

\* CredentialSettings values: each cookie absent or present, strings possibly empty
SettingsValues ==
    {CredentialSettings(PyStr(u), PyStr(p), j, x) :
        u \in {DEFAULT_USER, S_empty}, p \in {DEFAULT_PASSWORD, S_empty},
        j \in RTCookies, x \in RTCookies}

InitRT ==
    /\ pc = "rt_dump"
    /\ driver = "None"
    /\ quit_calls = 0
    /\ attempt = 0
    /\ last_click = NoClick
    /\ cookies = << >>
    /\ credential_settings \in SettingsValues
    /\ file = NoFile
    /\ pending = "none"
    /\ error = "none"
    /\ file_before = file
    /\ settings_before = credential_settings
    /\ opened_for_write = FALSE
    /\ post_call = NoPost
    /\ reloaded = NotLoaded

\* with open(CONFIG_PATH, 'w') as f: json.dump(self.credential_settings.__dict__, f, cls=CookieSetEncoder)
RT_Dump ==
    /\ pc = "rt_dump"
    /\ file' = [exists |-> TRUE, content |-> iterencode(settings_dict(credential_settings))]
    /\ opened_for_write' = TRUE
    /\ pc' = "rt_load"
    /\ UNCHANGED <<driver, quit_calls, attempt, last_click, cookies, credential_settings,
                   pending, error, file_before, settings_before, post_call, reloaded>>

\* with open(CONFIG_PATH, 'r') as f: CredentialSettings.from_dict(json.load(f))
RT_Load ==
    /\ pc = "rt_load"
    /\ LET loaded == json_load(file.content) IN
       reloaded' = IF loaded.ok THEN from_dict(loaded.val)
                   ELSE [ok |-> FALSE, error |-> "JSONDecodeError"]
    /\ pc' = "rt_done"
    /\ UNCHANGED <<driver, quit_calls, attempt, last_click, cookies, credential_settings, file,
                   pending, error, file_before, settings_before, opened_for_write, post_call>>

NextRT ==
    \/ RT_Dump
    \/ RT_Load

SpecRT == InitRT /\ [][NextRT]_vars

\* ------------------------------------------------------------- properties
Exited == pc \in {"returned", "raised"}

\* C1: once the driver was created, driver.quit() is called exactly once before
\* get_jira_cookies returns or raises, and no browser session is open after the exit
C1_DriverQuitOnEveryExit ==
    /\ quit_calls <= 1
    /\ (Exited => driver # "open")
    /\ (Exited /\ driver # "None" => quit_calls = 1)

\* an exit by exception after the driver was created, here from the file write
C1_Witness ==
    /\ pc = "raised"
    /\ error = "IOError"
    /\ driver = "quit"
    /\ quit_calls = 1

\* C2: _click_element_with_retry returns normally only if some attempt clicked the element
C2_ReturnsOnlyIfClicked ==
    last_click.result = "returned" => last_click.clicked

C4_MissingCookieReturnsFalse ==
    post_call.read = "missing_cookie" =>
        /\ post_call.result = "False"
        /\ post_call.posts = 0

\* C5: with zero cookies get_jira_cookies fails with ValueError, the file is not opened
\* for writing and its content is what it was before the call
C5_NoCookiesNoWrite ==
    /\ (pc \in {"save_loop", "save_open"} => cookies # << >>)
    /\ (error = "ValueError" =>
           /\ pending = "raise"
           /\ cookies = << >>
           /\ ~opened_for_write
           /\ file = file_before)

\* zero cookies with an earlier credential file in place
C5_Witness ==
    /\ pc = "raised"
    /\ error = "ValueError"
    /\ file_before = PreviousFile
    /\ file = PreviousFile

\* the cookie names that equal 'jsessionid' ignoring case
SessionNames == {S_JSESSIONID, S_jsessionid}
\* the cookie names that equal 'atl.xsrf.token' or 'atlassian.xsrf.token' ignoring case
XsrfNames == {S_atl_xsrf_token, S_ATLASSIAN_XSRF_TOKEN}
SessionIdx == {i \in DOMAIN cookies : cookies[i].name \in SessionNames}
XsrfIdx == {i \in DOMAIN cookies : cookies[i].name \in XsrfNames}

\* C6: with exactly one session cookie and exactly one xsrf cookie in the list, in any
\* order among other cookies, the loop of _save_cookies stores exactly these two with their
\* original name and value, and user and pwd are untouched
C6_SaveCookiesCapturesBoth ==
    (pc = "save_open" /\ Cardinality(SessionIdx) = 1 /\ Cardinality(XsrfIdx) = 1) =>
        LET j == CHOOSE i \in SessionIdx : TRUE
            x == CHOOSE i \in XsrfIdx : TRUE IN
        /\ credential_settings.JSESSIONID =
               CookieSet(PyStr(cookies[j].name), PyStr(cookies[j].value))
        /\ credential_settings.AtlassianXsrfToken =
               CookieSet(PyStr(cookies[x].name), PyStr(cookies[x].value))
        /\ credential_settings.user = settings_before.user
        /\ credential_settings.pwd = settings_before.pwd

\* upper-case names, the session cookie last, after an unrelated cookie
C6_Witness ==
    /\ pc = "save_open"
    /\ Len(cookies) = 3
    /\ cookies[1] = [name |-> S_other, value |-> V_a]
    /\ cookies[2] = [name |-> S_ATLASSIAN_XSRF_TOKEN, value |-> V_b]
    /\ cookies[3] = [name |-> S_JSESSIONID, value |-> V_a]
    /\ credential_settings.JSESSIONID = CookieSet(PyStr(S_JSESSIONID), PyStr(V_a))
    /\ credential_settings.AtlassianXsrfToken = CookieSet(PyStr(S_ATLASSIAN_XSRF_TOKEN), PyStr(V_b))

\* C7: when the file cannot be read or deserialized, post_tempo_worklog returns False
\* without a POST and without an exception
C7_UnreadableReturnsFalse ==
    post_call.read \in {"unreadable", "corrupt"} =>
        /\ post_call.result = "False"
        /\ post_call.posts = 0

\* C8: when get_jira_cookies exits with an error, the file and the two cookie fields of
\* the in-memory settings are what they were before the call
C8_ErrorLeavesStoreUntouched ==
    pc = "raised" =>
        /\ file = file_before
        /\ credential_settings.JSESSIONID = settings_before.JSESSIONID
        /\ credential_settings.AtlassianXsrfToken = settings_before.AtlassianXsrfToken

\* C9: dumping a CredentialSettings as _save_cookies does and loading the text with
\* from_dict gives back the same user, pwd and cookies
C9_RoundTrip ==
    pc = "rt_done" =>
        /\ reloaded.ok
        /\ reloaded.val.user = credential_settings.user
        /\ reloaded.val.pwd = credential_settings.pwd
        /\ reloaded.val.JSESSIONID = credential_settings.JSESSIONID
        /\ reloaded.val.AtlassianXsrfToken = credential_settings.AtlassianXsrfToken

\* a cookie with an empty name next to an absent one, reloaded
C9_Witness ==
    /\ pc = "rt_done"
    /\ reloaded.ok
    /\ credential_settings.JSESSIONID = CookieSet(PyStr(S_empty), PyStr(V_a))
    /\ credential_settings.AtlassianXsrfToken = PyNone
    /\ credential_settings.user = PyStr(S_empty)

\* the settings a submitter would load from the file as it is now
FileSettings ==
    LET loaded == json_load(file.content) IN
    IF file.exists /\ loaded.ok THEN from_dict(loaded.val)
    ELSE [ok |-> FALSE, error |-> "unreadable"]

\* C10: when get_jira_cookies returns normally from fresh settings, the file holds both
\* a non-null JSESSIONID and a non-null AtlassianXsrfToken
C10_SuccessPersistsBothCookies ==
    pc = "returned" =>
        /\ FileSettings.ok
        /\ FileSettings.val.JSESSIONID # PyNone
        /\ FileSettings.val.AtlassianXsrfToken # PyNone

====
